---- MODULE Spec2Model ----
(***************************************************************************)
(* Model of the "tree" command of dcrps (main.go): displayProcessTree      *)
(* groups the filtered process list by PPID into pstree and then calls     *)
(* constructProcessTree for every filtered record; constructProcessTree    *)
(* recurses depth-first through pstree, guarded by the seen map.           *)
(*                                                                         *)
(* The recursion is modelled with an explicit call stack: one frame per    *)
(* active call of constructProcessTree that got past the seen guard, with  *)
(* the position of its "for index := range pstree[ppid]" loop.             *)
(*                                                                         *)
(* Strings that the code inspects (Exec, for the prefix test) are          *)
(* sequences of characters.  A label built by string concatenation is the  *)
(* tuple of its parts: <<ppid, Exec, BuildVersion>> for                    *)
(* Itoa(ppid) + " (" + Exec + ") {" + BuildVersion + "}" and <<ppid>> for  *)
(* the bare integer value given to AddBranch.                              *)
(***************************************************************************)
EXTENDS Integers, Sequences, FiniteSets

\* Largest process identifier of a snapshot (identifiers are 1..MaxPid,
\* parent identifiers 0..MaxPid).
MaxPid == 3

\* Largest number of records goprocess.FindAll returns under Spec; under
\* SpecLong it returns up to one record more.
MaxLen == 2

VARIABLES ps, pstree, tree, seen, stack, i, pc

vars == <<ps, pstree, tree, seen, stack, i, pc>>

----------------------------------------------------------------------------
\* Inputs: what goprocess.FindAll can return.

Pids == 1..MaxPid

Ids == 0..MaxPid

dcrd == <<"d", "c", "r", "d">>

dcrwallet == <<"d", "c", "r", "w">>

gops == <<"g", "o", "p", "s">>

\* Executable name, build version and agent flag of the programs that run.
Programs ==
    { [Exec |-> dcrd, BuildVersion |-> "go1.12", Agent |-> TRUE],
      [Exec |-> dcrd, BuildVersion |-> "go1.12", Agent |-> FALSE],
      [Exec |-> dcrwallet, BuildVersion |-> "go1.13", Agent |-> FALSE],
      [Exec |-> gops, BuildVersion |-> "go1.13", Agent |-> FALSE] }

\* goprocess.P (the fields main.go reads in tree mode).
P == { [PID |-> pid, PPID |-> ppid, Exec |-> g.Exec,
        BuildVersion |-> g.BuildVersion, Agent |-> g.Agent] :
         pid \in Pids, ppid \in Ids, g \in Programs }

\* The snapshots of at most max records.  A snapshot lists every process
\* once: the PIDs of a list are distinct.
Snapshots(max) ==
    UNION { { l \in [1..n -> P] :
                \A a, b \in 1..n : a # b => l[a].PID # l[b].PID } :
            n \in 0..max }

----------------------------------------------------------------------------
\* Helpers of the code.

dcrPrefix == <<"d", "c", "r">>

HasPrefix(s, prefix) ==
    /\ Len(s) >= Len(prefix)
    /\ SubSeq(s, 1, Len(prefix)) = prefix

\* The grouping loop putting a record in front of its bucket.
PrependChild(bucket, p) == <<p>> \o bucket

\* pstree[p.PPID] = append(pstree[p.PPID], p)
AppendChild(bucket, p) == Append(bucket, p)

\* The grouping loop over the first n records of list.  A key the loop never
\* wrote reads as the nil slice in Go: the empty sequence here.
RECURSIVE BuildPstree(_, _)
BuildPstree(list, n) ==
    IF n = 0 THEN [k \in Ids |-> <<>>]
    ELSE LET m == BuildPstree(list, n - 1)
             p == list[n]
         IN  IF ~HasPrefix(p.Exec, dcrPrefix) THEN m
             ELSE [m EXCEPT ![p.PPID] = AppendChild(@, p)]

\* The guard left out.
SeenNever(s, ppid) == FALSE

\* if seen[ppid] { return }
Seen(s, ppid) == ppid \in s

\* The mark left out.
MarkSeenNone(s, ppid) == s

\* seen[ppid] = true
MarkSeen(s, ppid) == s \cup {ppid}

\* The label test comparing with the record's own identifier.
FullLabelPid(ppid, process) == ppid # process.PID

\* if ppid != process.PPID
FullLabel(ppid, process) == ppid # process.PPID

\* output := strconv.Itoa(ppid) + " (" + process.Exec + ")" + " {" + process.BuildVersion + "}"
Output(ppid, process) == <<ppid, process.Exec, process.BuildVersion>>

\* Every labelled branch starred, process.Agent not consulted.
MetaNoAgentTest(ppid, process) ==
    IF FullLabel(ppid, process) THEN "*" ELSE ""

\* The meta value of the branch: "*" for AddMetaBranch("*", output), none
\* for AddBranch.
Meta(ppid, process) ==
    IF FullLabel(ppid, process) /\ process.Agent THEN "*" ELSE ""

\* The node that the call attaches below node t (0 is the top node "...").
\* process is the record the call handles; it is kept with the node to
\* relate nodes to records, the printed text is value and meta.
NewBranch(ppid, process, t) ==
    [ parent  |-> t,
      value   |-> IF FullLabel(ppid, process) THEN Output(ppid, process)
                  ELSE <<ppid>>,
      meta    |-> Meta(ppid, process),
      process |-> process ]

\* A call constructProcessTree(ppid, process, seen, t) up to its loop, made
\* when the callers' frames are stk.
Call(ppid, process, t, stk) ==
    IF Seen(seen, ppid)
    THEN /\ seen' = seen
         /\ tree' = tree
         /\ stack' = stk
    ELSE /\ seen' = MarkSeen(seen, ppid)
         /\ tree' = Append(tree, NewBranch(ppid, process, t))
         /\ stack' = Append(stk, [ppid |-> ppid, tree |-> Len(tree) + 1,
                                  index |-> 1])

Top == stack[Len(stack)]

Callers == SubSeq(stack, 1, Len(stack) - 1)

----------------------------------------------------------------------------
Init ==
    /\ ps = <<>>
    /\ pstree = [k \in Ids |-> <<>>]
    /\ tree = <<>>
    /\ seen = {}
    /\ stack = <<>>
    /\ i = 1
    /\ pc = "start"

\* displayProcessTree up to its second loop, on a snapshot of at most max
\* records.
Enumerate(max) ==
    /\ pc = "start"
    /\ \E list \in Snapshots(max) :
         /\ ps' = list
         /\ pstree' = BuildPstree(list, Len(list))
    /\ tree' = <<>>
    /\ seen' = {}
    /\ i' = 1
    /\ pc' = "loop"
    /\ UNCHANGED stack

FindAll == Enumerate(MaxLen)

FindAllLong == Enumerate(MaxLen + 1)

\* A record of the second loop that fails the prefix test: continue.
Skip ==
    /\ pc = "loop"
    /\ stack = <<>>
    /\ i <= Len(ps)
    /\ ~HasPrefix(ps[i].Exec, dcrPrefix)
    /\ i' = i + 1
    /\ UNCHANGED <<ps, pstree, tree, seen, stack, pc>>

\* constructProcessTree(p.PPID, p, seen, tree) of the second loop.
TopCall ==
    /\ pc = "loop"
    /\ stack = <<>>
    /\ i <= Len(ps)
    /\ HasPrefix(ps[i].Exec, dcrPrefix)
    /\ Call(ps[i].PPID, ps[i], 0, <<>>)
    /\ i' = i + 1
    /\ UNCHANGED <<ps, pstree, pc>>

\* One iteration of the loop of the innermost active call:
\* constructProcessTree(process.PID, process, seen, tree).
ChildCall ==
    /\ stack # <<>>
    /\ Top.index <= Len(pstree[Top.ppid])
    /\ LET process == pstree[Top.ppid][Top.index]
       IN  Call(process.PID, process, Top.tree,
                Append(Callers, [Top EXCEPT !.index = @ + 1]))
    /\ UNCHANGED <<ps, pstree, i, pc>>

\* The loop of the innermost active call is over: the call returns.
Return ==
    /\ stack # <<>>
    /\ Top.index > Len(pstree[Top.ppid])
    /\ stack' = Callers
    /\ UNCHANGED <<ps, pstree, tree, seen, i, pc>>

\* fmt.Println(tree.String())
Println ==
    /\ pc = "loop"
    /\ stack = <<>>
    /\ i > Len(ps)
    /\ pc' = "done"
    /\ UNCHANGED <<ps, pstree, tree, seen, stack, i>>

Next ==
    \/ FindAll
    \/ Skip
    \/ TopCall
    \/ ChildCall
    \/ Return
    \/ Println

Spec == Init /\ [][Next]_vars

\* The same program on snapshots of one record more.
NextLong ==
    \/ FindAllLong
    \/ Skip
    \/ TopCall
    \/ ChildCall
    \/ Return
    \/ Println

SpecLong == Init /\ [][NextLong]_vars

TypeOK ==
    /\ Len(ps) <= MaxLen + 1
    /\ \A a \in 1..Len(ps) : ps[a] \in P
    /\ \A a, b \in 1..Len(ps) : a # b => ps[a].PID # ps[b].PID
    /\ \A k \in Ids : \A a \in 1..Len(pstree[k]) : pstree[k][a].PPID = k
    /\ \A a \in 1..Len(stack) : stack[a].tree \in 1..Len(tree)
    /\ seen \subseteq Ids
    /\ i \in 1..(Len(ps) + 1)
    /\ pc \in {"start", "loop", "done"}

----------------------------------------------------------------------------
\* Vocabulary of the properties.

Nodes == 1..Len(tree)

IsFamily(p) == HasPrefix(p.Exec, dcrPrefix)

\* The filtered records of the snapshot.
Records == { ps[j] : j \in { x \in 1..Len(ps) : IsFamily(ps[x]) } }

\* Position of a record in the process list (PIDs are distinct).
Pos(r) == CHOOSE j \in 1..Len(ps) : ps[j] = r

\* The nodes whose label starts with identifier k.
NodesFor(k) == { n \in Nodes : tree[n].value[1] = k }

\* The nodes carrying the pid, exec name and version of record r.
NodeOf(r) == { n \in Nodes : tree[n].value = <<r.PID, r.Exec, r.BuildVersion>> }

\* Following the parent links from identifier a reaches target in 1..n steps.
RECURSIVE Reaches(_, _, _)
Reaches(a, target, n) ==
    /\ n > 0
    /\ \E r \in Records :
         /\ r.PID = a
         /\ \/ r.PPID = target
            \/ Reaches(r.PPID, target, n - 1)

\* Some filtered record is its own ancestor (self-parented, or on a cycle).
Cyclic == \E r \in Records : Reaches(r.PID, r.PID, Cardinality(Records))

SelfParented == { r \in Records : r.PPID = r.PID }

RECURSIVE FrameWork(_)
\* Loop iterations and returns the frames of stk still owe.
FrameWork(stk) ==
    IF stk = <<>> THEN 0
    ELSE LET f == stk[Len(stk)]
         IN  (Len(pstree[f.ppid]) + 2 - f.index)
               + FrameWork(SubSeq(stk, 1, Len(stk) - 1))

\* Steps a frame can owe at most (the iterations of its loop and its
\* return), plus the step that creates it.
FrameCost == Len(ps) + 2

\* Rank before the list is known: above every rank a list can start with.
StartRank == 4 + MaxLen + (MaxLen + 3) * (MaxPid + 1)

\* A natural number bounding the steps the render can still take: what the
\* frames and the top-level loop owe, plus the frames that the identifiers
\* not yet seen can still create.
Rank ==
    IF pc = "done" THEN 0
    ELSE IF pc = "start" THEN StartRank
    ELSE 1 + (Len(ps) + 1 - i) + FrameWork(stack)
           + FrameCost * Cardinality(Ids \ seen)

----------------------------------------------------------------------------
\* C1: the render terminates on every finite list, self-parented and cyclic
\* ones included: every step of the render strictly decreases the natural
\* number Rank, so no chain of constructProcessTree calls and no run of the
\* render is infinite.
C1_RenderTerminates == [][Rank' < Rank /\ Rank' >= 0]_vars

\* The render of a list whose records form a cycle of two or more has
\* finished, a recursive call having met the guard.
C1_Witness ==
    /\ pc = "done"
    /\ \E r \in Records :
         /\ r.PPID # r.PID
         /\ Reaches(r.PID, r.PID, Cardinality(Records))
         /\ NodeOf(r) # {}

\* C2: on an acyclic input every filtered record is rendered exactly once as
\* a node carrying its own pid, exec name and version, in every order.
C2_EveryRecordOnce ==
    (pc = "done" /\ ~Cyclic) =>
        \A r \in Records : Cardinality(NodeOf(r)) = 1

\* C3: on an acyclic input the node of a record is a direct child of the
\* node of the record that is its parent, in every order.
C3_TrueAncestry ==
    (pc = "done" /\ ~Cyclic) =>
        \A c, q \in Records :
            (c # q /\ c.PPID = q.PID) =>
                \E nc \in NodeOf(c), nq \in NodeOf(q) : tree[nc].parent = nq

\* C4: the branches directly under the top node are exactly the entry
\* points of the forest: one for each distinct ppid that is the pid of no
\* filtered record, none for a ppid that is the pid of a filtered record
\* (stated for the acyclic inputs).
C4_TopBranchesAreEntryPoints ==
    (pc = "done" /\ ~Cyclic) =>
        LET top == { n \in Nodes : tree[n].parent = 0 }
            entry == { r.PPID : r \in Records } \ { r.PID : r \in Records }
        IN  /\ { tree[n].value[1] : n \in top } = entry
            /\ Cardinality(top) = Cardinality(entry)

\* C5: at most one call per identifier gets past the seen guard, so at most
\* one node is created for an identifier, and the seen set only grows.
C5_ExpandedAtMostOnce ==
    /\ [](\A k \in Ids : Cardinality(NodesFor(k)) <= 1)
    /\ [][seen \subseteq seen']_vars

\* Two top-level calls were made for the same identifier and the render has
\* finished.
C5_Witness ==
    /\ pc = "done"
    /\ \E a, b \in Records : a # b /\ a.PPID = b.PPID
    /\ \E r \in Records : Cardinality(NodesFor(r.PID)) = 1

\* C6: when several filtered records share ppid k, one branch is created
\* for k and every record of the bucket of k is rendered as a child of that
\* branch (stated for the acyclic inputs).
C6_SharedParentSiblings ==
    (pc = "done" /\ ~Cyclic) =>
        \A k \in Ids :
            Len(pstree[k]) >= 2 =>
                /\ Cardinality(NodesFor(k)) = 1
                /\ \A j \in 1..Len(pstree[k]) :
                     \E n \in NodeOf(pstree[k][j]) :
                         tree[n].parent \in NodesFor(k)

\* C7: a record with ppid = pid = k yields exactly one node for k: never a
\* second one, nested or sibling, and exactly one once the render is over.
C7_SelfParentedOnce ==
    \A r \in SelfParented :
        /\ Cardinality(NodesFor(r.PID)) <= 1
        /\ \A n \in NodesFor(r.PID) :
             tree[n].parent \notin NodesFor(r.PID)
        /\ (pc = "done" => Cardinality(NodesFor(r.PID)) = 1)
        /\ \A f \in 1..Len(stack) : \A g \in 1..Len(stack) :
             (f # g /\ stack[f].ppid = r.PID) => stack[g].ppid # r.PID

\* The recursive call of a self-parented record on itself has been made and
\* has returned.
C7_Witness ==
    /\ pc = "done"
    /\ \E r \in SelfParented : Cardinality(NodesFor(r.PID)) = 1

C9_SiblingsInListOrder ==
    \A a, b \in Nodes :
        (a < b /\ tree[a].parent = tree[b].parent) =>
            Pos(tree[a].process) < Pos(tree[b].process)

\* A node below the top level has two children.
C9_Witness ==
    /\ pc = "done"
    /\ \E a, b \in Nodes :
         a < b /\ tree[a].parent = tree[b].parent /\ tree[a].parent # 0

\* C10 as stated: the bare label is emitted only for a self-parented
\* record, and a record that is not self-parented always gets the full
\* label.
C10_BareOnlyWhenSelfParented ==
    \A n \in Nodes :
        /\ Len(tree[n].value) = 1 => tree[n].process.PPID = tree[n].process.PID
        /\ tree[n].process.PPID # tree[n].process.PID =>
             tree[n].value = <<tree[n].value[1], tree[n].process.Exec,
                               tree[n].process.BuildVersion>>

\* C10 amended: the bare label is emitted exactly by the top-level calls
\* (branches directly under the top node), showing the PPID of the record
\* handled; every recursive call emits the full label of its record.
C10_BareIffTopLevel ==
    \A n \in Nodes :
        IF tree[n].parent = 0
        THEN tree[n].value = <<tree[n].process.PPID>>
        ELSE tree[n].value = <<tree[n].process.PID, tree[n].process.Exec,
                               tree[n].process.BuildVersion>>

\* A top-level call for a record that is not self-parented and a recursive
\* call have both created their nodes.
C10_Witness ==
    /\ pc = "done"
    /\ \E n \in Nodes :
         tree[n].parent = 0 /\ tree[n].process.PPID # tree[n].process.PID
    /\ \E n \in Nodes : tree[n].parent # 0
====
